---- MODULE Spec2Model ----
(***************************************************************************)
(* A model of foxglove_data_platform/client.py: the response unwrapping    *)
(* helper json_or_raise, the endpoint methods of Client, the               *)
(* progress-tracking reader ProgressBufferReader used as an upload body,   *)
(* the chunked download loop of download_data and the decoder cache of     *)
(* get_messages.                                                           *)
(*                                                                         *)
(* Five specifications share the variables:                                 *)
(*   SpecHttp      one Client, any sequence of calls of the endpoints that *)
(*                 make one request                                        *)
(*   SpecDownload  one Client, any sequence of download_data calls         *)
(*   SpecUpload    one Client, any sequence of upload_data calls           *)
(*   SpecReader    one ProgressBufferReader, any sequence of read(n)       *)
(*   SpecDecode    one Client, any sequence of get_messages calls          *)
(***************************************************************************)
EXTENDS Integers, Sequences, FiniteSets, TLC

(* ------------------------------ bounds -------------------------------- *)

\* Longest byte string handed to the reader or uploaded.
MaxLen == 3
\* At most this many read(n) calls on one ProgressBufferReader.
MaxReads == 4
\* At most this many chunks in one streamed download body.
MaxChunks == 3
\* Bytes the transport asks of an upload body per read (stands for its
\* block size).
BlockSize == 2
\* At most this many records in one downloaded container.
MaxRecords == 3
\* At most this many get_messages calls on one Client.
MaxCalls == 2

\* The byte values used in payloads.
Byte == {0, 1}

(* ------------------------- HTTP responses ----------------------------- *)

\* A key that a JSON object does not hold.
Absent == "<absent>"

\* The status codes a server answers with, final and well formed (200 to
\* 599), on both sides of the boundaries json_or_raise and raise_for_status
\* test (400 and 500).
Statuses == {200, 204, 304, 399, 400, 404, 499, 500, 503, 599}

\* The reason phrase the transport stores in response.reason.
ReasonPhrase(status) ==
    CASE status = 200 -> "OK"
      [] status = 204 -> "No Content"
      [] status = 304 -> "Not Modified"
      [] status = 400 -> "Bad Request"
      [] status = 404 -> "Not Found"
      [] status = 500 -> "Internal Server Error"
      [] status = 503 -> "Service Unavailable"
      [] OTHER -> "Unknown"

\* The raw bodies a server sends.
Bodies ==
    { "{\"error\": \"device not found\"}",
      "{\"link\": \"https://x/y\"}",
      "{\"id\": \"dev1\"}",
      "[]",
      "<html>Bad Gateway</html>",
      "" }

\* A parsed JSON value: its Python type and the keys the client reads.
JsonValue(type, error, link, id) ==
    [type |-> type, error |-> error, link |-> link, id |-> id]

NoJson == JsonValue("none", Absent, Absent, Absent)

\* response.json(): the parsed body; parsed = FALSE stands for ValueError.
ResponseJson(body) ==
    CASE body = "{\"error\": \"device not found\"}" ->
            [parsed |-> TRUE,
             json |-> JsonValue("dict", "device not found", Absent, Absent)]
      [] body = "{\"link\": \"https://x/y\"}" ->
            [parsed |-> TRUE,
             json |-> JsonValue("dict", Absent, "https://x/y", Absent)]
      [] body = "{\"id\": \"dev1\"}" ->
            [parsed |-> TRUE,
             json |-> JsonValue("dict", Absent, Absent, "dev1")]
      [] body = "[]" ->
            [parsed |-> TRUE,
             json |-> JsonValue("list", Absent, Absent, Absent)]
      [] OTHER -> [parsed |-> FALSE, json |-> NoJson]

\* What the server answers to one request.
Response(status, body, url) ==
    [status_code |-> status, body |-> body,
     reason |-> ReasonPhrase(status), url |-> url]

(* ------------------------ results of a call --------------------------- *)

NoBytes == << >>

\* The value a call hands back: a parsed body, a byte string, or the
\* {link, text, code} record of upload_data.
Value(json, data, text, code) ==
    [json |-> json, data |-> data, text |-> text, code |-> code]

NoValue == Value(NoJson, NoBytes, "", 0)

Returned(v) ==
    [kind |-> "return", exc |-> "", message |-> "", status |-> 0, value |-> v]

\* An exception leaving the call: its class, str(exception) and, for an
\* HTTPError, the status code of the response it carries.
Raised(exc, message, status) ==
    [kind |-> "raise", exc |-> exc, message |-> message, status |-> status,
     value |-> NoValue]

NoOutcome ==
    [kind |-> "none", exc |-> "", message |-> "", status |-> 0,
     value |-> NoValue]

(* --------------------------- json_or_raise ---------------------------- *)

\* json.get("error", response.reason)
ReasonAfterGet(response, json) ==
    IF json.error # Absent THEN json.error ELSE response.reason

\* A faulty variant: the branch tests the wrong class of status codes.
SubstitutedReason5xx(response, json) ==
    IF 500 <= response.status_code /\ response.status_code < 600
    THEN ReasonAfterGet(response, json)
    ELSE response.reason

\* response.reason as json_or_raise leaves it before raise_for_status.
SubstitutedReason(response, json) ==
    IF 400 <= response.status_code /\ response.status_code < 500
    THEN ReasonAfterGet(response, json)
    ELSE response.reason

\* requests.Response.raise_for_status with the given reason.
raise_for_status(response, reason) ==
    IF 400 <= response.status_code /\ response.status_code < 500
    THEN Raised("HTTPError",
                ToString(response.status_code) \o " Client Error: " \o reason
                    \o " for url: " \o response.url,
                response.status_code)
    ELSE IF 500 <= response.status_code /\ response.status_code < 600
    THEN Raised("HTTPError",
                ToString(response.status_code) \o " Server Error: " \o reason
                    \o " for url: " \o response.url,
                response.status_code)
    ELSE NoOutcome

json_or_raise(response) ==
    LET r == ResponseJson(response.body) IN
    IF ~r.parsed
    THEN Raised("HTTPError", "500 Server Error: Unexpected format",
                response.status_code)
    ELSE IF /\ 400 <= response.status_code
            /\ response.status_code < 500
            /\ r.json.type # "dict"
    THEN \* json.get on a value that is no dict
         Raised("AttributeError",
                "'" \o r.json.type \o "' object has no attribute 'get'", 0)
    ELSE LET raised ==
                 raise_for_status(response, SubstitutedReason(response, r.json))
         IN  IF raised.kind = "raise"
             THEN raised
             ELSE Returned(Value(r.json, NoBytes, "", 0))

(* ------------------------ ProgressBufferReader ------------------------ *)

Min(a, b) == IF a < b THEN a ELSE b

RECURSIVE SeqsUpTo(_, _)
\* Every sequence over S of length at most n.
SeqsUpTo(S, n) ==
    IF n = 0 THEN {<< >>}
    ELSE LET shorter == SeqsUpTo(S, n - 1) IN
         shorter \cup {Append(s, x) : s \in shorter, x \in S}

\* The byte strings a caller holds.
Contents == SeqsUpTo(Byte, MaxLen)

\* The buf argument: a bytes object, or an open binary file whose handle
\* stands at offset pos of its content (a caller may have read from it).
BytesBuf(content) == [kind |-> "bytes", content |-> content, pos |-> 0]
FileBuf(content, pos) == [kind |-> "file", content |-> content, pos |-> pos]

Bufs ==
    {BytesBuf(c) : c \in Contents}
    \cup UNION {{FileBuf(c, p) : p \in 0..Len(c)} : c \in Contents}

\* os.fstat(buf.fileno()).st_size
st_size(buf) == Len(buf.content)

\* ProgressBufferReader.__init__: BytesIO(buf) starts at offset 0, a file
\* handle is kept as it is.
NewReader(buf, callback) ==
    [callback |-> callback,
     kind |-> buf.kind,
     progress |-> 0,
     length |-> IF buf.kind = "bytes" THEN Len(buf.content) ELSE st_size(buf),
     content |-> buf.content,
     pos |-> IF buf.kind = "bytes" THEN 0 ELSE buf.pos]

NoReader ==
    [callback |-> FALSE, kind |-> "bytes", progress |-> 0, length |-> 0,
     content |-> << >>, pos |-> 0]

\* self._buf.read(n) or bytes(): the next n bytes, all the rest when n < 0.
BufRead(content, pos, n) ==
    IF n < 0
    THEN SubSeq(content, pos + 1, Len(content))
    ELSE SubSeq(content, pos + 1, Min(pos + n, Len(content)))

\* A faulty variant: the counter is set to the last chunk's length, not advanced by it.
ProgressResetTo(progress, chunk) == Len(chunk)

\* self._progress += int(len(chunk))
ProgressAfter(progress, chunk) == progress + Len(chunk)

\* ProgressBufferReader.read: the reader after the call, the chunk returned
\* and the callback invocations made.
ReaderRead(r, n) ==
    LET chunk == BufRead(r.content, r.pos, n)
        progress == ProgressAfter(r.progress, chunk)
    IN  [reader |-> [r EXCEPT !.pos = r.pos + Len(chunk),
                              !.progress = progress],
         chunk |-> chunk,
         calls |-> IF r.callback
                   THEN <<[size |-> r.length, progress |-> progress]>>
                   ELSE << >>]

\* ProgressBufferReader.tell and __len__
ReaderTell(r) == r.progress
ReaderLen(r) == r.length

RECURSIVE Drain(_, _, _)
\* The transport sending a body that has read(): blocks of BlockSize until
\* an empty one.
Drain(r, body, calls) ==
    LET step == ReaderRead(r, BlockSize) IN
    IF step.chunk = << >>
    THEN [reader |-> step.reader, body |-> body, calls |-> calls \o step.calls]
    ELSE Drain(step.reader, body \o step.chunk, calls \o step.calls)

(* ----------------------------- state ---------------------------------- *)

VARIABLES
    \* SpecHttp, SpecDownload, SpecUpload: the last endpoint call of the client
    call,               \* the call's arguments and what the server answered
    outcome,            \* what the call returned or raised
    sent,               \* the HTTP requests the call issued, in order
    params,             \* the params= or json= its first request carried
    download_progress,  \* the progress values the call's callback received
    upload_progress,    \* the (size, progress) pairs the call's callback received
    \* SpecReader: one ProgressBufferReader
    reader,             \* the object's fields
    chunks,             \* the chunks its read calls returned, in order
    size_progress,      \* the (size, progress) pairs its callback received
    \* SpecDecode: one Client and its get_messages calls
    installed,          \* the optional decoder packages that import
    supplied,           \* the decoders argument of Client(...)
    auto_load_decoders, \* Client._auto_load_decoders
    decoders,           \* Client._decoders
    constructed,        \* the decoder instances built so far, in order
    gm                  \* the get_messages call in progress or just ended

httpVars == <<call, outcome, sent, params, download_progress, upload_progress>>
readerVars == <<reader, chunks, size_progress>>
decodeVars == <<installed, supplied, auto_load_decoders, decoders, constructed, gm>>
vars == <<httpVars, readerVars, decodeVars>>

(* --------------------------- Client: HTTP ----------------------------- *)

\* Client.__init__: the default host.
host == "api.foxglove.dev"

\* Client._url
Url(path) == "https://" \o host \o path

Request(verb, url) == [verb |-> verb, url |-> url]

NoBuf == BytesBuf(<< >>)

\* A call of an endpoint method: the answer to its first request and what
\* json_or_raise made of it; for download_data the chunks the link served
\* and whether a callback was passed; for upload_data the data, whether a
\* callback was passed, and the status code and text answering the PUT.
Call(method, status, body, unwrapped, streamed, data, callback, code, text) ==
    [method |-> method, status |-> status, body |-> body,
     unwrapped |-> unwrapped, streamed |-> streamed, data |-> data, callback |-> callback,
     code |-> code, text |-> text]

\* A call that raised before any request (status 0), or no call yet.
NoCall(method) == Call(method, 0, "", NoOutcome, << >>, NoBuf, FALSE, 0, "")

(* ------------------------ request parameters -------------------------- *)

\* Python values are written as their repr. These are the ones that are
\* false in a condition: None, the empty string, list and dict, 0, False.
Falsy == {"None", "''", "[]", "{}", "0", "False"}

\* if v
Truthy(v) == v \notin Falsy

\* One entry of a parameter dict.
Param(key, value) == [key |-> key, value |-> value]

\* A faulty variant: the comprehension keeps every entry.
DropNothing(p) == p

\* {k: v for k, v in params.items() if v}
DropFalsy(p) == SelectSeq(p, LAMBDA e : Truthy(e.value))

\* camelize(snake_name) for the names passed as sort_by.
camelize(snake_name) ==
    CASE ~Truthy(snake_name) -> snake_name
      [] snake_name = "'device_id'" -> "'deviceId'"
      [] snake_name = "'timestamp'" -> "'timestamp'"

\* The datetime arguments: one instant, and None where the argument is
\* optional.
Instant == "datetime.datetime(2021, 1, 1, 0, 0)"

\* dt.astimezone().isoformat()
IsoFormat(dt) == "'2021-01-01T00:00:00+00:00'"

\* start.astimezone().isoformat() if start else None
IsoFormatOrNone(dt) == IF Truthy(dt) THEN IsoFormat(dt) ELSE "None"

\* str(duration)
Str(n) == "'" \o n \o "'"

\* The field mapping an endpoint applies to the body json_or_raise returned.
\*   "record": one object, read by key          (get_device, create_event, ...)
\*   "list":   a list of objects, each read by key  (get_devices, get_events, ...)
\*   "none":   the body is dropped               (delete_device, ...)
Reshape(shape, json) ==
    CASE shape = "none" -> Returned(NoValue)
      [] shape = "record" ->
            IF json.type # "dict"
            THEN Raised("TypeError",
                        "list indices must be integers or slices, not str", 0)
            ELSE IF json.id = Absent
            THEN Raised("KeyError", "'id'", 0)
            ELSE Returned(Value(json, NoBytes, "", 0))
      [] shape = "list" ->
            IF json.type = "dict"
            THEN \* iterating a dict yields its keys, which are strings
                 Raised("TypeError", "string indices must be integers", 0)
            ELSE Returned(Value(json, NoBytes, "", 0))

\* One request carrying the parameters p, the server's answer unwrapped by
\* json_or_raise, the body reshaped: the common body of the endpoint methods.
Endpoint(method, verb, path, shape, p) ==
    \E status \in Statuses, body \in Bodies :
        LET r == json_or_raise(Response(status, body, Url(path))) IN
        /\ call' = Call(method, status, body, r, << >>, NoBuf, FALSE, 0, "")
        /\ sent' = <<Request(verb, Url(path))>>
        /\ params' = p
        /\ outcome' = IF r.kind = "raise" THEN r
                      ELSE Reshape(shape, r.value.json)
        /\ download_progress' = << >>
        /\ upload_progress' = << >>
        /\ UNCHANGED <<readerVars, decodeVars>>

\* metadata defaults to {}.
create_event ==
    \E device_id \in {"'dev1'"}, duration \in {"0"},
       metadata \in {"None", "{}", "{'k': 'v'}"} :
        Endpoint("create_event", "POST", "/beta/device-events", "record",
                 <<Param("deviceId", device_id),
                   Param("durationNanos", Str(duration)),
                   Param("metadata", metadata),
                   Param("timestamp", IsoFormat(Instant))>>)

delete_event ==
    Endpoint("delete_event", "DELETE", "/beta/device-events/evt1", "none",
             << >>)

get_events ==
    \E device_id \in {"None", "'dev1'"}, device_name \in {"None", "'robot'"},
       sort_by \in {"None", "'device_id'"}, sort_order \in {"'asc'"},
       limit \in {"0", "10"}, offset \in {"None"}, start \in {Instant},
       end \in {"None"}, key \in {"''"}, value \in {"None"} :
        IF ~Truthy(device_id) /\ ~Truthy(device_name)
        THEN /\ outcome' = Raised("FoxgloveException",
                                  "One of device_id or device_name is required.",
                                  0)
             /\ call' = NoCall("get_events")
             /\ sent' = << >>
             /\ params' = << >>
             /\ download_progress' = << >>
             /\ upload_progress' = << >>
             /\ UNCHANGED <<readerVars, decodeVars>>
        ELSE Endpoint("get_events", "GET", "/beta/device-events", "list",
                      DropFalsy(<<Param("deviceId", device_id),
                                  Param("deviceName", device_name),
                                  Param("sortBy", camelize(sort_by)),
                                  Param("sortOrder", sort_order),
                                  Param("limit", limit),
                                  Param("offset", offset),
                                  Param("start", IsoFormatOrNone(start)),
                                  Param("end", IsoFormatOrNone(end)),
                                  Param("key", key),
                                  Param("value", value)>>))

get_coverage ==
    \E device_id \in {"None", "'dev1'"}, tolerance \in {"0", "30"} :
        Endpoint("get_coverage", "GET", "/v1/data/coverage", "list",
                 DropFalsy(<<Param("deviceId", device_id),
                             Param("tolerance", tolerance),
                             Param("start", IsoFormat(Instant)),
                             Param("end", IsoFormat(Instant))>>))

get_device ==
    Endpoint("get_device", "GET", "/v1/devices/dev1", "record", << >>)

get_devices == Endpoint("get_devices", "GET", "/v1/devices", "list", << >>)

create_device ==
    \E name \in {"''", "'robot'"}, serial_number \in {"''", "'sn1'"} :
        Endpoint("create_device", "POST", "/v1/devices", "record",
                 <<Param("name", name),
                   Param("serialNumber", serial_number)>>)

delete_device ==
    Endpoint("delete_device", "DELETE", "/v1/devices/dev1", "none", << >>)

delete_import ==
    \E device_id \in {"''", "'dev1'"} :
        Endpoint("delete_import", "DELETE", "/v1/data/imports/imp1", "none",
                 <<Param("deviceId", device_id)>>)

\* include_deleted defaults to False.
get_imports ==
    \E device_id \in {"None"}, start \in {Instant}, end \in {"None"},
       data_start \in {"None"}, data_end \in {"None"},
       include_deleted \in {"False", "True"},
       filename \in {"None", "'a.mcap'"} :
        Endpoint("get_imports", "GET", "/v1/data/imports", "list",
                 DropFalsy(<<Param("deviceId", device_id),
                             Param("start", IsoFormatOrNone(start)),
                             Param("end", IsoFormatOrNone(end)),
                             Param("dataStart", IsoFormatOrNone(data_start)),
                             Param("dataEnd", IsoFormatOrNone(data_end)),
                             Param("includeDeleted", include_deleted),
                             Param("filename", filename)>>))

get_topics ==
    \E device_id \in {"''", "'dev1'"} :
        Endpoint("get_topics", "GET", "/v1/data/topics", "list",
                 <<Param("deviceId", device_id),
                   Param("start", IsoFormat(Instant)),
                   Param("end", IsoFormat(Instant)),
                   Param("includeSchemas", "'false'")>>)

\* json["link"] on the body json_or_raise returned.
LinkOf(json) ==
    IF json.type # "dict"
    THEN Raised("TypeError",
                "list indices must be integers or slices, not str", 0)
    ELSE IF json.link = Absent
    THEN Raised("KeyError", "'link'", 0)
    ELSE Returned(Value(json, NoBytes, "", 0))

\* The link request of download_data and upload_data: json_or_raise, then
\* json["link"].
LinkRequest(status, body, path) ==
    LET r == json_or_raise(Response(status, body, Url(path))) IN
    [unwrapped |-> r,
     link |-> IF r.kind = "raise" THEN r ELSE LinkOf(r.value.json)]

(* ------------------------- download_data ------------------------------ *)

\* The chunks response.iter_content yields: the transport never yields an
\* empty one.
Chunks == {<<0>>, <<1>>, <<0, 1>>}

ChunkSeqs == SeqsUpTo(Chunks, MaxChunks)

\* data = BytesIO()
NewBytesIO == [buf |-> << >>, pos |-> 0]

\* BytesIO.write at the current position, which is the end.
BytesIOWrite(data, chunk) ==
    [buf |-> SubSeq(data.buf, 1, data.pos) \o chunk,
     pos |-> data.pos + Len(chunk)]

\* A faulty variant: the callback is told the length of the chunk, not data.tell().
ReportChunkLen(data, chunk) == Len(chunk)

\* callback(progress=data.tell()), data being the buffer after the write.
ReportedProgress(data, chunk) == data.pos

RECURSIVE StreamInto(_, _, _, _)
\* for chunk in response.iter_content(...): data.write(chunk); callback(...)
StreamInto(data, body, callback, log) ==
    IF body = << >>
    THEN [data |-> data, log |-> log]
    ELSE LET written == BytesIOWrite(data, Head(body)) IN
         StreamInto(written, Tail(body), callback,
                    IF callback
                    THEN Append(log, ReportedProgress(written, Head(body)))
                    ELSE log)

\* topics defaults to [], output_format to OutputFormat.mcap0.
download_data ==
    \E status \in Statuses, body \in Bodies,
       device_id \in {"'dev1'"}, topics \in {"[]", "['/a']"} :
        LET request == LinkRequest(status, body, "/v1/data/stream")
            link == request.link
            post == Request("POST", Url("/v1/data/stream"))
        IN
        /\ params' = DropFalsy(<<Param("deviceId", device_id),
                                 Param("end", IsoFormat(Instant)),
                                 Param("outputFormat", "'mcap0'"),
                                 Param("start", IsoFormat(Instant)),
                                 Param("topics", topics)>>)
        /\ upload_progress' = << >>
        /\ UNCHANGED <<readerVars, decodeVars>>
        /\ IF link.kind = "raise"
           THEN /\ call' = Call("download_data", status, body,
                                 request.unwrapped, << >>, NoBuf, FALSE, 0, "")
                /\ outcome' = link
                /\ sent' = <<post>>
                /\ download_progress' = << >>
           ELSE \E streamed \in ChunkSeqs, callback \in BOOLEAN :
                    LET s == StreamInto(NewBytesIO, streamed, callback, << >>)
                    IN
                    /\ call' = Call("download_data", status, body,
                                     request.unwrapped, streamed, NoBuf,
                                     callback, 0, "")
                    /\ sent' = <<post, Request("GET", link.value.json.link)>>
                    /\ download_progress' = s.log
                    \* data.getvalue()
                    /\ outcome' = Returned(Value(NoJson, s.data.buf, "", 0))

(* --------------------------- upload_data ------------------------------ *)

\* One byte string of each length, and a file at each offset of each.
UploadBufs ==
    {b \in Bufs : \A i \in 1..Len(b.content) : b.content[i] = i % 2}

\* What the storage behind the link answers to the PUT.
PutStatuses == {200, 201, 403, 503}
PutTexts == {"", "<Error>AccessDenied</Error>"}

\* A faulty variant: upload_data raises for a PUT that failed, as the other endpoints do.
UploadResultRaising(json, text, code) ==
    IF code >= 400
    THEN Raised("HTTPError", text, code)
    ELSE Returned(Value(json, NoBytes, text, code))

\* {"link": link, "text": upload_request.text, "code": upload_request.status_code}
UploadResult(json, text, code) == Returned(Value(json, NoBytes, text, code))

upload_data ==
    \E status \in Statuses, body \in Bodies,
       device_id \in {"'dev1'"}, filename \in {"''", "'a.mcap'"} :
        LET request == LinkRequest(status, body, "/v1/data/upload")
            link == request.link
            post == Request("POST", Url("/v1/data/upload"))
        IN
        /\ params' = <<Param("deviceId", device_id),
                       Param("filename", filename)>>
        /\ download_progress' = << >>
        /\ UNCHANGED <<readerVars, decodeVars>>
        /\ IF link.kind = "raise"
           THEN /\ call' = Call("upload_data", status, body,
                                 request.unwrapped, << >>, NoBuf, FALSE, 0, "")
                /\ outcome' = link
                /\ sent' = <<post>>
                /\ upload_progress' = << >>
           ELSE \E data \in UploadBufs, callback \in BOOLEAN,
                   code \in PutStatuses, text \in PutTexts :
                    LET buffer == NewReader(data, callback)
                        put == Drain(buffer, << >>, << >>)
                    IN
                    /\ call' = Call("upload_data", status, body,
                                     request.unwrapped, << >>, data, callback,
                                     code, text)
                    /\ sent' = <<post, Request("PUT", link.value.json.link)>>
                    /\ upload_progress' = put.calls
                    /\ outcome' = UploadResult(link.value.json, text, code)

(* ------------------------ decoder resolution -------------------------- *)

\* The schema encodings a container's records carry: the four the module
\* knows and one it does not.
Tags == {"ros1msg", "ros2msg", "protobuf", "jsonschema", "cbor"}

\* The packages the module tries to import its decoder classes from.
OptionalPackages == {"mcap_ros1", "mcap_ros2", "mcap_protobuf"}

\* A decoder: the decode method of an instance of a class; id tells one
\* instance from another.
Decoder(cls, id) == [cls |-> cls, id |-> id]

NoDecoder == Decoder("", 0)

\* A dict from encoding to decoder; NoDecoder marks a key that is not in it.
EmptyMapping == [t \in Tags |-> NoDecoder]

InCache(mapping, encoding) == mapping[encoding] # NoDecoder

\* The decoders a caller passes: its own JsonDecoder().decode and a callable
\* of its own for ros1msg.
UserJson == Decoder("JsonDecoder", 101)
UserRos1 == Decoder("UserDecoder", 102)

ExplicitMappings ==
    { EmptyMapping,
      [EmptyMapping EXCEPT !["jsonschema"] = UserJson],
      [EmptyMapping EXCEPT !["jsonschema"] = UserJson, !["ros1msg"] = UserRos1] }

\* A faulty variant: a decoder class that did not import is reported as an encoding
\* without a decoder class.
ErrOnConstructionAsUnknown(package, encoding) ==
    Raised("FoxgloveException",
           "No known decoder class for encoding " \o encoding, 0)

\* _err_on_construction(err)(): err is the ModuleNotFoundError of the import.
ErrOnConstruction(package, encoding) ==
    Raised("FoxgloveException",
           "Error importing decoder implementation: No module named '"
               \o package \o "'", 0)

\* Ros1Decoder(), Ros2Decoder(), ProtobufDecoder(): the class when its
\* package imported, the raising stand-in when it did not.
Construct(cls, package, encoding, inst, id) ==
    IF package \in inst
    THEN [error |-> NoOutcome, decoder |-> Decoder(cls, id)]
    ELSE [error |-> ErrOnConstruction(package, encoding),
          decoder |-> NoDecoder]

\* decoder_for_schema_encoding; id is the identity of the instance built.
decoder_for_schema_encoding(encoding_string, inst, id) ==
    CASE encoding_string = "ros1msg" ->
            Construct("Ros1Decoder", "mcap_ros1", encoding_string, inst, id)
      [] encoding_string = "ros2msg" ->
            Construct("Ros2Decoder", "mcap_ros2", encoding_string, inst, id)
      [] encoding_string = "protobuf" ->
            Construct("ProtobufDecoder", "mcap_protobuf", encoding_string,
                      inst, id)
      [] encoding_string = "jsonschema" ->
            [error |-> NoOutcome, decoder |-> Decoder("JsonDecoder", id)]
      [] OTHER ->
            [error |-> Raised("FoxgloveException",
                              "No known decoder class for encoding "
                                  \o encoding_string, 0),
             decoder |-> NoDecoder]

\* A faulty variant: the cache is not consulted, every record builds a decoder.
InCacheNever(mapping, encoding) == FALSE

\* schema.encoding in self._decoders
CacheHit(mapping, encoding) == InCache(mapping, encoding)

\* A faulty variant: a client given a mapping loads built-in decoders all the same.
AutoLoadAlways(auto_load) == TRUE

\* if self._auto_load_decoders
AutoLoad(auto_load) == auto_load

\* The decoder get_messages uses for one record: the cached one, a newly
\* built one (built = TRUE, to be stored in the cache), or an error.
Resolve(mapping, auto_load, inst, encoding, id) ==
    IF ~CacheHit(mapping, encoding)
    THEN IF AutoLoad(auto_load)
         THEN LET made == decoder_for_schema_encoding(encoding, inst, id) IN
              [error |-> made.error, decoder |-> made.decoder,
               built |-> made.error.kind # "raise"]
         ELSE [error |-> Raised("FoxgloveException",
                                "no decoder provided for schema encoding "
                                    \o encoding, 0),
               decoder |-> NoDecoder, built |-> FALSE]
    ELSE [error |-> NoOutcome, decoder |-> mapping[encoding], built |-> FALSE]

(* --------------------------- get_messages ----------------------------- *)

\* A record the container reader yields: its schema's encoding, its
\* channel's topic and the message's data.
Record(encoding, topic, data) ==
    [encoding |-> encoding, topic |-> topic, data |-> data]

\* Message data: JSON text, text that is no JSON, and an opaque binary.
JsonTexts == {"{\"x\": 1}", "{x"}

Records ==
    {Record("jsonschema", "/json", d) : d \in JsonTexts}
    \cup {Record(t, "/" \o t, "bin") : t \in Tags \ {"jsonschema"}}

\* A faulty variant: the message data is handed on undecoded.
JsonLoadsIdentity(text) == [parsed |-> TRUE, value |-> text]

\* json.loads(message.data.decode("utf-8")): the Python value, written as
\* its repr; parsed = FALSE stands for the ValueError.
JsonLoads(text) ==
    CASE text = "{\"x\": 1}" -> [parsed |-> TRUE, value |-> "{'x': 1}"]
      [] OTHER -> [parsed |-> FALSE, value |-> ""]

\* decoder(schema, message)
Decode(decoder, record) ==
    IF decoder.cls = "JsonDecoder"
    THEN LET loaded == JsonLoads(record.data) IN
         IF loaded.parsed
         THEN [error |-> NoOutcome, value |-> loaded.value]
         ELSE [error |-> Raised("JSONDecodeError",
                                "Expecting property name enclosed in double quotes",
                                0),
               value |-> ""]
    ELSE \* a decoder of another package
         [error |-> NoOutcome,
          value |-> decoder.cls \o "(" \o record.data \o ")"]

\* An element of output_messages: (channel.topic, message, decoded value);
\* by is the decoder that produced the value.
Triple(record, value, by) ==
    [topic |-> record.topic, message |-> record, decoded |-> value, by |-> by]

\* What the caller receives from a get_messages call that raised: the local
\* list output_messages is dropped.
RaisedDelivers(output) == << >>

\* A get_messages call: where it stands, how many calls the client has seen,
\* the records read so far, output_messages, what the caller received, and
\* the exception that ended the call.
Frame(pc, n, seen, output, result, error) ==
    [pc |-> pc, n |-> n, seen |-> seen, output |-> output,
     result |-> result, error |-> error]

IdleFrame == Frame("idle", 0, << >>, << >>, << >>, NoOutcome)

\* data = self.download_data(...); reader = make_reader(BytesIO(data)).
\* The link request decides whether the call gets as far as the loop; the
\* container reader that turns the downloaded bytes into records is the mcap
\* package's, and the records it yields are drawn one at a time below.
get_messages_begin ==
    /\ gm.pc # "iterating"
    /\ gm.n < MaxCalls
    /\ \E status \in Statuses, body \in Bodies :
           LET link == LinkRequest(status, body, "/v1/data/stream").link IN
           gm' = IF link.kind = "raise"
                 THEN Frame("raised", gm.n + 1, << >>, << >>, << >>, link)
                 ELSE Frame("iterating", gm.n + 1, << >>, << >>, << >>,
                            NoOutcome)
    /\ UNCHANGED <<installed, supplied, auto_load_decoders, decoders,
                   constructed>>
    /\ UNCHANGED <<httpVars, readerVars>>

\* One turn of the loop over reader.iter_messages().
get_messages_record ==
    /\ gm.pc = "iterating"
    /\ Len(gm.seen) < MaxRecords
    /\ \E record \in Records :
           LET seen == Append(gm.seen, record)
               found == Resolve(decoders, auto_load_decoders, installed,
                                record.encoding, Len(constructed) + 1)
               decoded == Decode(found.decoder, record)
           IN
           IF found.error.kind = "raise"
           THEN /\ gm' = Frame("raised", gm.n, seen, gm.output,
                               RaisedDelivers(gm.output), found.error)
                /\ UNCHANGED <<decoders, constructed>>
           ELSE /\ decoders' = IF found.built
                               THEN [decoders EXCEPT
                                         ![record.encoding] = found.decoder]
                               ELSE decoders
                /\ constructed' =
                       IF found.built
                       THEN Append(constructed,
                                   [encoding |-> record.encoding,
                                    decoder |-> found.decoder])
                       ELSE constructed
                /\ gm' = IF decoded.error.kind = "raise"
                         THEN Frame("raised", gm.n, seen, gm.output,
                                    RaisedDelivers(gm.output), decoded.error)
                         ELSE Frame("iterating", gm.n, seen,
                                    Append(gm.output,
                                           Triple(record, decoded.value,
                                                  found.decoder)),
                                    << >>, NoOutcome)
    /\ UNCHANGED <<installed, supplied, auto_load_decoders>>
    /\ UNCHANGED <<httpVars, readerVars>>

\* The reader has no more records: return output_messages.
get_messages_return ==
    /\ gm.pc = "iterating"
    /\ gm' = Frame("returned", gm.n, gm.seen, gm.output, gm.output, NoOutcome)
    /\ UNCHANGED <<installed, supplied, auto_load_decoders, decoders,
                   constructed>>
    /\ UNCHANGED <<httpVars, readerVars>>

\* A client that no get_messages call has used; the specifications of the
\* other operations keep it so.
DecodeIdle ==
    /\ installed = {}
    /\ supplied = EmptyMapping
    /\ auto_load_decoders = TRUE
    /\ decoders = EmptyMapping
    /\ constructed = << >>
    /\ gm = IdleFrame

(* --------------------------- SpecHttp --------------------------------- *)

ReaderInit ==
    /\ reader = NoReader
    /\ chunks = << >>
    /\ size_progress = << >>

HttpInit ==
    /\ call = NoCall("")
    /\ outcome = NoOutcome
    /\ sent = << >>
    /\ params = << >>
    /\ download_progress = << >>
    /\ upload_progress = << >>

InitHttp == HttpInit /\ ReaderInit /\ DecodeIdle

NextHttp ==
    \/ create_event
    \/ delete_event
    \/ get_events
    \/ get_coverage
    \/ get_device
    \/ get_devices
    \/ create_device
    \/ delete_device
    \/ delete_import
    \/ get_imports
    \/ get_topics

SpecHttp == InitHttp /\ [][NextHttp]_vars

SpecDownload == InitHttp /\ [][download_data]_vars

SpecUpload == InitHttp /\ [][upload_data]_vars

(* ------------------- properties of the HTTP calls --------------------- *)

ErrorBody == "{\"error\": \"device not found\"}"

\* The server answered the call's request 404 with {"error": "device not found"}.
NotFoundAnswered == call.status = 404 /\ call.body = ErrorBody

\* C1 as stated: on a 404 answer with body {"error": "device not found"} the
\* error an endpoint method propagates has exactly the message
\* "device not found".
C1_MessageIsExactlyServerError ==
    NotFoundAnswered =>
        outcome.kind = "raise" /\ outcome.message = "device not found"

\* C1 amended: on a 404 answer with body {"error": "device not found"} every
\* endpoint method propagates the HTTPError of raise_for_status, whose message
\* is "404 Client Error: device not found for url: <the request's url>": the
\* server's message stands where the generic reason phrase would, inside the
\* status line message, and is not the whole message.
C1_ServerErrorReplacesReason ==
    NotFoundAnswered =>
        /\ outcome.kind = "raise"
        /\ outcome.exc = "HTTPError"
        /\ outcome.status = 404
        /\ outcome.message =
               "404 Client Error: device not found for url: " \o sent[1].url
        /\ outcome.message #
               "404 Client Error: Not Found for url: " \o sent[1].url

C1_Witness ==
    /\ NotFoundAnswered
    /\ call.method = "get_device"
    /\ outcome.kind = "raise"
    /\ sent = <<Request("GET", "https://api.foxglove.dev/v1/devices/dev1")>>

\* C2 as stated: json_or_raise ends in exactly one of three ways, decided in
\* this order: a body that does not parse raises the unexpected-format error
\* carrying the response's status; otherwise a status of 400 or more raises an
\* HTTP status error; otherwise the parsed body is returned unchanged.
C2_ThreeOutcomes ==
    call.status # 0 =>
        LET parse == ResponseJson(call.body) IN
        IF ~parse.parsed
        THEN call.unwrapped =
                 Raised("HTTPError", "500 Server Error: Unexpected format",
                        call.status)
        ELSE IF call.status >= 400
        THEN /\ call.unwrapped.kind = "raise"
             /\ call.unwrapped.exc = "HTTPError"
             /\ call.unwrapped.status = call.status
        ELSE call.unwrapped = Returned(Value(parse.json, NoBytes, "", 0))

RECURSIVE Flatten(_)
\* The concatenation of a sequence of chunks.
Flatten(body) ==
    IF body = << >> THEN << >> ELSE Head(body) \o Flatten(Tail(body))

DownloadReturned == call.method = "download_data" /\ outcome.kind = "return"

\* C7: when the link request succeeds, download_data returns the chunks of
\* the streamed body concatenated in arrival order; a callback is invoked once
\* per chunk with the number of bytes written up to and including that chunk,
\* so the reported values increase strictly and the last one is the length of
\* the returned buffer.
C7_DownloadConcatenatesAndReports ==
    DownloadReturned =>
        LET body == call.streamed
            k == Len(body)
        IN
        /\ outcome.value.data = Flatten(body)
        /\ ~call.callback => download_progress = << >>
        /\ call.callback =>
               /\ Len(download_progress) = k
               /\ \A i \in 1..k :
                      download_progress[i] = Len(Flatten(SubSeq(body, 1, i)))
               /\ \A i \in 1..(k - 1) :
                      download_progress[i] < download_progress[i + 1]
               /\ k > 0 => download_progress[k] = Len(outcome.value.data)

C7_Witness ==
    /\ DownloadReturned
    /\ call.callback
    /\ call.streamed = <<(<<0, 1>>), (<<1>>)>>
    /\ outcome.value.data = <<0, 1, 1>>
    /\ download_progress = <<2, 3>>

\* The link request of the call succeeded: a status below 400 and a body that
\* is a JSON object holding a link.
LinkGranted ==
    LET parse == ResponseJson(call.body) IN
    /\ call.status # 0
    /\ call.status < 400
    /\ parse.parsed
    /\ parse.json.type = "dict"
    /\ parse.json.link # Absent

Puts == {i \in 1..Len(sent) : sent[i].verb = "PUT"}

\* C9: once its link request has succeeded, upload_data issues exactly one PUT,
\* to the returned link, and whatever the status code of the PUT it returns
\* {link, text, code} with the PUT's text and status code, without raising; a
\* link request answered 4xx or 5xx raises out of json_or_raise instead, and no
\* PUT is issued.
C9_UploadReturnsPutVerbatim ==
    call.method = "upload_data" =>
        /\ LinkGranted =>
               /\ Cardinality(Puts) = 1
               /\ sent[2] = Request("PUT", ResponseJson(call.body).json.link)
               /\ outcome.kind = "return"
               /\ outcome.value.json.link = ResponseJson(call.body).json.link
               /\ outcome.value.text = call.text
               /\ outcome.value.code = call.code
        /\ (400 <= call.status /\ call.status < 600) =>
               /\ call.unwrapped.kind = "raise"
               /\ outcome = call.unwrapped
               /\ Puts = {}

C9_Witness ==
    /\ call.method = "upload_data"
    /\ LinkGranted
    /\ call.code = 503
    /\ call.text = "<Error>AccessDenied</Error>"
    /\ outcome.kind = "return"
    /\ outcome.value.code = 503

(* --------------------------- SpecReader ------------------------------- *)

\* The n of read(n): negative (the default -1), zero, short of, equal to and
\* beyond the longest content.
ReadSizes == (-1)..(MaxLen + 1)

InitReader ==
    /\ \E buf \in Bufs, callback \in BOOLEAN :
           reader = NewReader(buf, callback)
    /\ chunks = << >>
    /\ size_progress = << >>
    /\ HttpInit
    /\ DecodeIdle

read ==
    \E n \in ReadSizes :
        LET step == ReaderRead(reader, n) IN
        /\ Len(chunks) < MaxReads
        /\ reader' = step.reader
        /\ chunks' = Append(chunks, step.chunk)
        /\ size_progress' = size_progress \o step.calls
        /\ UNCHANGED <<httpVars, decodeVars>>

SpecReader == InitReader /\ [][read]_vars

(* -------------------- properties of the reader ------------------------ *)

RECURSIVE TotalLen(_)
\* The sum of the lengths of a sequence of chunks.
TotalLen(cs) == IF cs = << >> THEN 0 ELSE Len(Head(cs)) + TotalLen(Tail(cs))

\* The underlying source has nothing left to read.
AtEndOfStream == reader.pos = Len(reader.content)

\* C3: after any sequence of read(n) calls on a reader over bytes or over a
\* file handle, tell() is the sum of the lengths of the chunks returned so far;
\* no read lowers the counter; and a read at end-of-stream returns an empty
\* chunk and leaves the counter as it was.
C3_TellIsSumOfChunks ==
    /\ [](ReaderTell(reader) = TotalLen(chunks))
    /\ [][/\ ReaderTell(reader') >= ReaderTell(reader)
          /\ AtEndOfStream =>
                 /\ chunks'[Len(chunks')] = << >>
                 /\ ReaderTell(reader') = ReaderTell(reader)]_vars

C3_Witness ==
    /\ reader.kind = "file"
    /\ Len(chunks) = 3
    /\ chunks[1] # << >>
    /\ chunks[2] # << >>
    /\ chunks[3] = << >>
    /\ AtEndOfStream
    /\ ReaderTell(reader) = 2

\* C4 as stated: over either kind of input, once reads have consumed the
\* source to end-of-stream, tell() equals len(), and the last (size, progress)
\* pair the callback received has size and progress both equal to len().
C4_FinalTellIsLen ==
    (AtEndOfStream /\ chunks # << >>) =>
        /\ ReaderTell(reader) = ReaderLen(reader)
        /\ reader.callback =>
               size_progress[Len(size_progress)] =
                   [size |-> ReaderLen(reader), progress |-> ReaderLen(reader)]

\* Where C4 does hold: the source was at offset 0 when the reader was built
\* (every bytes input, and a file handle nothing was read from).
C4_HoldsFromOffsetZero ==
    (reader.pos = reader.progress) => C4_FinalTellIsLen

(* --------------------------- SpecDecode ------------------------------- *)

\* Client.__init__: decoders=None switches auto-loading on; a mapping, the
\* empty one too, is kept as the cache and switches it off.
InitDecode ==
    /\ installed \in SUBSET OptionalPackages
    /\ \/ /\ supplied = EmptyMapping
          /\ auto_load_decoders = TRUE
       \/ /\ supplied \in ExplicitMappings
          /\ auto_load_decoders = FALSE
    /\ decoders = supplied
    /\ constructed = << >>
    /\ gm = IdleFrame
    /\ HttpInit
    /\ ReaderInit

NextDecode ==
    \/ get_messages_begin
    \/ get_messages_record
    \/ get_messages_return

SpecDecode == InitDecode /\ [][NextDecode]_vars

(* ------------------ properties of get_messages ------------------------ *)

\* The record the loop of the call in progress handled last.
LastSeen == gm.seen[Len(gm.seen)]

\* The call raised while handling a record with this encoding.
RaisedAt(encoding) ==
    /\ gm.pc = "raised"
    /\ gm.seen # << >>
    /\ LastSeen.encoding = encoding

\* The error of explicit-mapping mode for an encoding without an entry.
NotProvided(encoding) ==
    Raised("FoxgloveException",
           "no decoder provided for schema encoding " \o encoding, 0)

\* The client was given a mapping with an entry for "jsonschema" and none for
\* "ros1msg".
JsonOnlyClient ==
    /\ ~auto_load_decoders
    /\ InCache(supplied, "jsonschema")
    /\ ~InCache(supplied, "ros1msg")

\* C5: for a client given a mapping with "jsonschema" and without "ros1msg",
\* every record with encoding "ros1msg" ends the get_messages call with the
\* error "no decoder provided for schema encoding ros1msg" and no built-in
\* decoder is ever constructed; every "jsonschema" record is decoded by the
\* very decoder that was supplied, in every call; and the mapping stays as it
\* was supplied.
C5_ExplicitMappingOnly ==
    JsonOnlyClient =>
        /\ decoders = supplied
        /\ constructed = << >>
        /\ \A i \in 1..Len(gm.output) :
               /\ gm.output[i].message.encoding # "ros1msg"
               /\ gm.output[i].message.encoding = "jsonschema" =>
                      gm.output[i].by = supplied["jsonschema"]
        /\ (gm.seen # << >> /\ LastSeen.encoding = "ros1msg") =>
               /\ gm.pc = "raised"
               /\ gm.error = NotProvided("ros1msg")
        /\ (gm.seen # << >> /\ LastSeen = Record("jsonschema", "/json", "{\"x\": 1}")) =>
               /\ gm.pc # "raised"
               /\ gm.output[Len(gm.output)].by = supplied["jsonschema"]

C5_Witness ==
    /\ JsonOnlyClient
    /\ gm.n = 2
    /\ Len(gm.output) = 2
    /\ gm.output[1].by = UserJson
    /\ gm.output[2].by = UserJson
    /\ RaisedAt("ros1msg")
    /\ gm.error = NotProvided("ros1msg")

\* The encodings the cache holds a decoder for.
Cached == {t \in Tags : InCache(decoders, t)}

\* The error ending the call came out of decoder_for_schema_encoding.
ConstructionFailed ==
    /\ gm.pc = "raised"
    /\ gm.seen # << >>
    /\ gm.error.exc = "FoxgloveException"

\* C6: in auto-load mode, over any sequence of get_messages calls,
\* decoder_for_schema_encoding succeeds at most once per encoding; the decoder
\* it built is the cache's entry for that encoding, and stays so; every record
\* is decoded by the cache's entry for its encoding; and a construction that
\* fails leaves the cache as it was.
C6_OneDecoderPerEncoding ==
    /\ [](auto_load_decoders =>
            /\ \A i, j \in 1..Len(constructed) :
                   constructed[i].encoding = constructed[j].encoding => i = j
            /\ \A i \in 1..Len(constructed) :
                   decoders[constructed[i].encoding] = constructed[i].decoder
            /\ Cached = {constructed[i].encoding : i \in 1..Len(constructed)}
            /\ \A i \in 1..Len(gm.output) :
                   gm.output[i].by = decoders[gm.output[i].message.encoding])
    /\ [][auto_load_decoders =>
            /\ \A t \in Cached : decoders'[t] = decoders[t]
            /\ ConstructionFailed' => decoders' = decoders]_vars

C6_Witness ==
    /\ auto_load_decoders
    /\ gm.n = 2
    /\ Len(constructed) = 2
    /\ constructed[1].encoding = "jsonschema"
    /\ constructed[2].encoding = "ros1msg"
    /\ Len(gm.output) = 3
    /\ gm.output[1].by = constructed[2].decoder
    /\ gm.output[2].by = constructed[1].decoder
    /\ gm.output[3].by = constructed[2].decoder

\* The container of C8 as far as it has been read: two "jsonschema" records
\* with JSON data, then a record whose encoding the mapping has no entry for.
JsonRecord == Record("jsonschema", "/json", "{\"x\": 1}")

TwoJsonRead ==
    /\ ~auto_load_decoders
    /\ InCache(supplied, "jsonschema")
    /\ Len(gm.seen) >= 2
    /\ gm.seen[1] = JsonRecord
    /\ gm.seen[2] = JsonRecord

ThirdUnregisteredRead ==
    /\ TwoJsonRead
    /\ Len(gm.seen) = 3
    /\ ~InCache(supplied, gm.seen[3].encoding)

\* The two triples the first two records decode to.
TwoJsonTriples ==
    <<Triple(JsonRecord, "{'x': 1}", supplied["jsonschema"]),
      Triple(JsonRecord, "{'x': 1}", supplied["jsonschema"])>>

\* C8 as stated: get_messages hands the caller the first two triples,
\* correctly decoded, and fails exactly when it reaches the third record.
C8_YieldsTwoThenFails ==
    ThirdUnregisteredRead =>
        /\ gm.pc = "raised"
        /\ gm.result = TwoJsonTriples

\* C8 amended: get_messages decodes the first two records correctly into its
\* list without failing, and fails exactly when it reaches the third record,
\* with "no decoder provided for schema encoding <tag>"; the call raises
\* instead of returning, so the caller receives none of the triples.
C8_DecodesTwoThenFailsWithNothing ==
    /\ (TwoJsonRead /\ Len(gm.seen) = 2) =>
           /\ gm.pc # "raised"
           /\ gm.output = TwoJsonTriples
    /\ ThirdUnregisteredRead =>
           /\ gm.pc = "raised"
           /\ gm.error = NotProvided(gm.seen[3].encoding)
           /\ gm.output = TwoJsonTriples
           /\ gm.result = << >>

C8_Witness ==
    /\ ThirdUnregisteredRead
    /\ gm.seen[3].encoding = "cbor"
    /\ gm.pc = "raised"
    /\ Len(gm.output) = 2

\* The package a built-in decoder class comes from.
PackageOf(encoding) ==
    CASE encoding = "ros1msg" -> "mcap_ros1"
      [] encoding = "ros2msg" -> "mcap_ros2"
      [] encoding = "protobuf" -> "mcap_protobuf"
      [] OTHER -> ""

\* The messages the client raises for an encoding that has no decoder at all,
\* in auto-load mode and in explicit-mapping mode.
NoDecoderMessages ==
    {"No known decoder class for encoding " \o t : t \in Tags}
    \cup {"no decoder provided for schema encoding " \o t : t \in Tags}

\* A record was reached, in auto-load mode, whose decoder class comes from a
\* package that is not installed and is not in the cache.
MissingDependencyReached ==
    /\ auto_load_decoders
    /\ gm.seen # << >>
    /\ PackageOf(LastSeen.encoding) # ""
    /\ PackageOf(LastSeen.encoding) \notin installed

\* A record was reached whose encoding has no decoder at all: unknown to the
\* module in auto-load mode, without an entry in explicit-mapping mode.
NoDecoderReached ==
    /\ gm.seen # << >>
    /\ \/ auto_load_decoders /\ LastSeen.encoding = "cbor"
       \/ ~auto_load_decoders /\ ~InCache(supplied, LastSeen.encoding)

\* C10: in auto-load mode a record whose decoder class did not import, its
\* package not being installed, ends the call with an error naming the missing
\* module; a record whose encoding has no decoder at all ends it, in either
\* mode, with one of the no-decoder messages; and the two are never the same
\* error.
C10_MissingDependencyIsDistinct ==
    /\ MissingDependencyReached =>
           /\ gm.pc = "raised"
           /\ gm.error.exc = "FoxgloveException"
           /\ gm.error.message =
                  "Error importing decoder implementation: No module named '"
                      \o PackageOf(LastSeen.encoding) \o "'"
           /\ gm.error.message \notin NoDecoderMessages
    /\ NoDecoderReached =>
           /\ gm.pc = "raised"
           /\ gm.error.message \in NoDecoderMessages
           /\ gm.error.message =
                  (IF auto_load_decoders
                   THEN "No known decoder class for encoding "
                   ELSE "no decoder provided for schema encoding ")
                      \o LastSeen.encoding

C10_Witness ==
    /\ MissingDependencyReached
    /\ LastSeen.encoding = "ros1msg"
    /\ "mcap_ros2" \in installed
    /\ gm.pc = "raised"
    /\ Len(gm.output) = 1

(* -------------------- request-parameter properties -------------------- *)

\* The call got as far as issuing its first request.
RequestIssued == sent # << >>

\* The parameter names the first request carried, in order.
ParamNames == [i \in 1..Len(params) |-> params[i].key]

\* Some parameter of the first request has a falsy value.
CarriesFalsy == \E i \in 1..Len(params) : params[i].value \in Falsy

\* The methods whose parameter dict goes through the "if v" comprehension,
\* and the ones that hand their dict to the request as built.
FilteringMethods == {"get_events", "download_data", "get_coverage",
                     "get_imports"}

UnfilteredNames ==
    [create_event |-> <<"deviceId", "durationNanos", "metadata", "timestamp">>,
     create_device |-> <<"name", "serialNumber">>,
     delete_import |-> <<"deviceId">>,
     get_topics |-> <<"deviceId", "start", "end", "includeSchemas">>,
     upload_data |-> <<"deviceId", "filename">>]

\* C11 as stated: whatever the method, no request carries a parameter whose
\* value is absent or falsy.
C11_NoFalsyParameterSent == RequestIssued => ~CarriesFalsy

\* C11: get_events, download_data, get_coverage and get_imports never send a
\* parameter whose value is falsy, while create_event, create_device,
\* delete_import, get_topics and upload_data send every one of their
\* parameters whatever its value.
C11_OnlyFilteringMethodsDropFalsy ==
    /\ (RequestIssued /\ call.method \in FilteringMethods) => ~CarriesFalsy
    /\ (RequestIssued /\ call.method \in DOMAIN UnfilteredNames) =>
           ParamNames = UnfilteredNames[call.method]

\* get_events(device_id="dev1", sort_by=None, limit=0) asked for its events
\* with the device id alone of the three.
C11_Witness ==
    /\ call.method = "get_events"
    /\ RequestIssued
    /\ ParamNames = <<"deviceId", "sortOrder", "start">>
    /\ params[1].value = "'dev1'"

====
